---- MODULE Spec2Model ----
(***************************************************************************)
(* Model of LLMibrarian's batch renamer (src/main.py).                     *)
(*                                                                         *)
(* main() lists PDF_DIR, keeps the entries with a supported extension and  *)
(* runs one process_file task per entry under asyncio.gather.  A task      *)
(* extracts text, asks the completion service for a name (primary call,    *)
(* then a fallback call when the reply is the sentinel MORE), sanitizes    *)
(* the reply and renames the file.  All calls share one asyncio.Semaphore. *)
(*                                                                         *)
(* Strings are sequences of one-character strings, so that the string      *)
(* functions (strip, upper, lower, re.sub, split) are computed and not     *)
(* assumed.                                                                *)
(*                                                                         *)
(* Three specifications share the module: Spec (and FairSpec) is a batch   *)
(* run of main.py, SanSpec is one call of sanitize_filename on an input    *)
(* drawn from a bounded set of strings, DwSpec is a run of the randomizing *)
(* script dirtyworks.py.  Each leaves the variables of the others idle.    *)
(***************************************************************************)
EXTENDS Integers, Sequences, FiniteSets, TLC

\* ------------------------------------------------------------------ bounds
\* number of entries in the directory
NumFiles == 3
\* the gate size MAX_CONCURRENT ranges over 1..MaxGate
MaxGate == 2
\* a call reports a cost in 0..MaxCost
MaxCost == 1
\* sanitizer inputs: every string of at most MaxLen characters, and long
\* strings around the length limit
MaxLen == 4

\* the randomizing script runs on a directory of at most DwFiles entries
DwFiles == 2

\* ------------------------------------------------------- program constants
MAX_NAME_LEN == 150
\* random.randint(10000000, 99999999)
RAND_MIN == 10000000
RAND_MAX == 99999999

\* --------------------------------------------------------------- strings
Whitespace == {" ", "\t", "\n"}

Illegal == {"<", ">", ":", "\"", "/", "\\", "|", "?", "*"}

LowerLetters == <<"a", "b", "d", "e", "f", "m", "o", "p", "r", "t", "u", "x">>

UpperLetters == <<"A", "B", "D", "E", "F", "M", "O", "P", "R", "T", "U", "X">>

LowerChar(c) ==
    IF \E i \in DOMAIN UpperLetters : UpperLetters[i] = c
    THEN LowerLetters[CHOOSE i \in DOMAIN UpperLetters : UpperLetters[i] = c]
    ELSE c

UpperChar(c) ==
    IF \E i \in DOMAIN LowerLetters : LowerLetters[i] = c
    THEN UpperLetters[CHOOSE i \in DOMAIN LowerLetters : LowerLetters[i] = c]
    ELSE c

\* str.lower()
Lower(s) == [i \in DOMAIN s |-> LowerChar(s[i])]

\* str.upper()
Upper(s) == [i \in DOMAIN s |-> UpperChar(s[i])]

\* positions of s that hold a character other than whitespace
Inked(s) == {i \in DOMAIN s : s[i] \notin Whitespace}

LStrip(s) ==
    IF Inked(s) = {} THEN <<>>
    ELSE SubSeq(s, CHOOSE i \in Inked(s) : \A j \in Inked(s) : i <= j, Len(s))

RStrip(s) ==
    IF Inked(s) = {} THEN <<>>
    ELSE SubSeq(s, 1, CHOOSE i \in Inked(s) : \A j \in Inked(s) : i >= j)

\* str.strip()
Strip(s) == RStrip(LStrip(s))

\* re.sub(r'[<>:"/\\|?*]', '', name)
RemoveIllegal(s) == SelectSeq(s, LAMBDA c : c \notin Illegal)

\* whitespace left as it is
CollapseWhitespace_kept(s) == s

\* re.sub(r'\s+', ' ', name): the first character of a run of whitespace
\* becomes a space, the others are dropped
Dropped == "dropped"

CollapseWhitespace(s) ==
    SelectSeq([i \in DOMAIN s |->
                 IF s[i] \notin Whitespace THEN s[i]
                 ELSE IF i > 1 /\ s[i - 1] \in Whitespace THEN Dropped
                 ELSE " "],
              LAMBDA c : c # Dropped)

\* "-" in name
Contains(s, c) == \E i \in DOMAIN s : s[i] = c

\* name.split("-"): the pieces between consecutive separators
Split(s, c) ==
    LET seps == {i \in DOMAIN s : s[i] = c}
        n == Cardinality(seps)
        pos(k) == IF k = 0 THEN 0
                  ELSE IF k = n + 1 THEN Len(s) + 1
                  ELSE CHOOSE i \in seps :
                           Cardinality({j \in seps : j <= i}) = k
    IN  [k \in 1..(n + 1) |-> SubSeq(s, pos(k - 1) + 1, pos(k) - 1)]

\* Python's None, as a value no character sequence equals
None == <<"None">>

\* truth value of `if new_name:`
Truthy(v) == v # None /\ v # <<>>

Cleaned(name) == Strip(CollapseWhitespace(RemoveIllegal(name)))

\* the validation without its length test
sanitize_filename_nolimit(name) ==
    LET cleaned == Cleaned(name)
    IN  IF ~Contains(cleaned, "-") \/ Len(Split(cleaned, "-")) < 2
        THEN None
        ELSE cleaned

sanitize_filename(name) ==
    LET cleaned == Cleaned(name)
    IN  IF \/ Len(cleaned) > MAX_NAME_LEN
           \/ ~Contains(cleaned, "-")
           \/ Len(Split(cleaned, "-")) < 2
        THEN None
        ELSE cleaned

\* ------------------------------------------------------------- directory
\* The directory holds NumFiles entries.  Entry 2 already carries a name of
\* the form the service returns, entry 3 has an unsupported extension.
Files == 1..NumFiles

Stem(i) == IF i = 2 THEN <<"a", "-", "b">> ELSE [k \in 1..i |-> "x"]

Suffixes ==
    << <<".", "P", "D", "F">>, <<".", "P", "D", "F">>,
       <<".", "t", "x", "t">>, <<".", "e", "p", "u", "b">> >>

Suffix(i) == Suffixes[((i - 1) % Len(Suffixes)) + 1]

\* a path is <<stem, suffix>>; Path(i) is where entry i is before the run
Path(i) == <<Stem(i), Suffix(i)>>

SupportedSuffixes ==
    { <<".", "p", "d", "f">>, <<".", "e", "p", "u", "b">>,
      <<".", "m", "o", "b", "i">>, <<".", "a", "z", "w", "3">> }

\* the suffix compared as it is spelled
IsSupported_exact(i) == Suffix(i) \in SupportedSuffixes

\* f.suffix.lower() in [".pdf", ".epub", ".mobi", ".azw3"]
IsSupported(i) == Lower(Suffix(i)) \in SupportedSuffixes

\* ----------------------------------------------------------------- inputs
\* what an extraction can return: "" (also on any error), blank text, text
TextSamples == { <<>>, <<" ", "\n">>, <<"t">> }

\* message contents the completion service can return
Replies ==
    { <<"m", "o", "r", "e", "\n">>,
      <<"a", "-", "b">>,
      <<" ", "a", "?", "-", "b">>,
      <<"x", " ", "\t", "-", " ", "y">>,
      <<"a", "b">> }

\* usage.total_tokens, 0 when the reply carries no usage
Costs == 0..MaxCost

\* a call either raises (network error, timeout, malformed JSON) or returns
\* a content and a usage count
Outcomes ==
    {[kind |-> "error", content |-> <<>>, cost |-> 0]}
    \cup [kind : {"reply"}, content : Replies, cost : Costs]

SENTINEL == <<"M", "O", "R", "E">>

\* ------------------------------------------------------------------ state
VARIABLES
    replaceExisting,  \* os.rename semantics: TRUE replaces an existing
                      \* destination (POSIX), FALSE raises (Windows)
    max_concurrent,   \* MAX_CONCURRENT
    semaphore,        \* free permits of the semaphore
    fs,               \* directory: path |-> entry whose content is there
    all_files,        \* the discovered entries
    mainpc,           \* "list", "gather", "reported", "aborted"
    token_sum,
    pc,               \* per task: "none", "start", "gate1", "call1",
                      \*   "gate2", "call2", "done", "raised"
    held,             \* permits a task holds
    tokens,           \* tokens_used, then the value process_file returns
    status,           \* "None", "Discovered", "Extracted", "Renamed",
                      \*   "Skipped", "Failed", "Ignored", "Raised"
    reason,           \* why a task ended as it did
    kind1, cost1,     \* outcome of the primary call
    reply1,           \* content the primary call returned, stripped
    kind2, cost2,     \* outcome of the fallback call
    calls1, calls2,   \* primary / fallback calls issued
    renames           \* successful renames whose source content was entry i

\* state of a single call of sanitize_filename
VARIABLES
    san_pc,           \* "off", "input", "done"
    san_in,           \* the argument
    san_out           \* the value returned

sanvars == <<san_pc, san_in, san_out>>

\* state of the randomizing script (dirtyworks.py)
VARIABLES
    dw_pc,            \* "off", "list", "loop", "done", "crashed"
    dw_init,          \* the entries in the directory before the run
    dw_fs,            \* directory: path |-> entry whose content is there
    dw_todo,          \* paths PDF_DIR.iterdir() has still to yield
    used_names,
    dw_renames,       \* successful renames whose source content was entry k
    dw_clash          \* a rename ran while another file was at its
                      \* destination

dwvars == <<dw_pc, dw_init, dw_fs, dw_todo, used_names, dw_renames, dw_clash>>

auxvars == <<sanvars, dwvars>>

vars == <<replaceExisting, max_concurrent, semaphore, fs, all_files, mainpc,
          token_sum, pc, held, tokens, status, reason, kind1, cost1, kind2,
          cost2, calls1, calls2, renames, reply1, auxvars>>

\* no call of sanitize_filename on its own is under way
SanIdle ==
    /\ san_pc = "off"
    /\ san_in = <<>>
    /\ san_out = <<>>

\* the randomizing script is not running
DwIdle ==
    /\ dw_pc = "off"
    /\ dw_init = {}
    /\ dw_fs = <<>>
    /\ dw_todo = {}
    /\ used_names = {}
    /\ dw_renames = <<>>
    /\ dw_clash = FALSE

Init ==
    /\ replaceExisting \in BOOLEAN
    /\ max_concurrent \in 1..MaxGate
    /\ semaphore = max_concurrent
    /\ fs = [p \in {Path(i) : i \in Files} |-> CHOOSE i \in Files : Path(i) = p]
    /\ all_files = {}
    /\ mainpc = "list"
    /\ token_sum = 0
    /\ pc = [i \in Files |-> "none"]
    /\ held = [i \in Files |-> 0]
    /\ tokens = [i \in Files |-> 0]
    /\ status = [i \in Files |-> "None"]
    /\ reason = [i \in Files |-> "none"]
    /\ kind1 = [i \in Files |-> "none"]
    /\ cost1 = [i \in Files |-> 0]
    /\ kind2 = [i \in Files |-> "none"]
    /\ cost2 = [i \in Files |-> 0]
    /\ calls1 = [i \in Files |-> 0]
    /\ calls2 = [i \in Files |-> 0]
    /\ renames = [i \in Files |-> 0]
    /\ reply1 = [i \in Files |-> <<>>]
    /\ SanIdle
    /\ DwIdle

\* ----------------------------------------------------------- the semaphore
\* a gate that admits every caller, whatever its value
CanAcquire_unbounded(value) == TRUE

\* Semaphore.locked() is false: acquire() returns without suspending
CanAcquire(value) == value > 0

\* an exit of `async with` that gives nothing back
Release_leaked(value, n) == value

\* Semaphore.release() at the exits of the `async with` blocks a task is
\* in: n permits go back
Release(value, n) == value + n

\* ---------------------------------------------------------------- renaming
\* file_path.rename(new_path): the directory afterwards and whether it raised
rename_file(dir, file_path, new_name, ioerror) ==
    LET new_path == <<new_name, file_path[2]>>
    IN  IF file_path \notin DOMAIN dir \/ ioerror
        THEN [fs |-> dir, ok |-> FALSE, moved |-> 0]
        ELSE IF new_path = file_path
        THEN [fs |-> dir, ok |-> TRUE, moved |-> dir[file_path]]
        ELSE IF new_path \in DOMAIN dir /\ ~replaceExisting
        THEN [fs |-> dir, ok |-> FALSE, moved |-> 0]
        ELSE [fs |-> [p \in (DOMAIN dir \ {file_path}) \cup {new_path} |->
                        IF p = new_path THEN dir[file_path] ELSE dir[p]],
              ok |-> TRUE, moved |-> dir[file_path]]

\* ------------------------------------------------------ resolution results
\* lines 141-144: the value phase2_fallback returns, or the exception
phase2_fallback(out) ==
    IF out.kind = "error"
    THEN [raised |-> TRUE, name |-> None, tokens |-> 0]
    ELSE [raised |-> FALSE, name |-> sanitize_filename(Strip(out.content)),
          tokens |-> out.cost]

\* lines 163-169 for a reply that is not the sentinel
phase1_reply(out) ==
    IF out.kind = "error"
    THEN [raised |-> TRUE, name |-> None, tokens |-> 0]
    ELSE [raised |-> FALSE, name |-> sanitize_filename(Strip(out.content)),
          tokens |-> out.cost]

\* the calls made without the `try`: an exception leaves the function
get_title_and_author_uncaught(r) == r

\* lines 170-172: `except Exception` around both calls
get_title_and_author_except(r) ==
    IF r.raised THEN [raised |-> FALSE, name |-> None, tokens |-> 0] ELSE r

\* every reply taken for the sentinel
IsSentinel_anyreply(out) == out.kind = "reply"

\* reply.upper() == "MORE"
IsSentinel(out) == out.kind = "reply" /\ Upper(Strip(out.content)) = SENTINEL

\* ---------------------------------------------------------------- actions
\* line 202-207: list the directory, keep the supported entries, create one
\* process_file task per entry
Discover ==
    /\ mainpc = "list"
    /\ all_files' = {i \in Files : Path(i) \in DOMAIN fs /\ IsSupported(i)}
    /\ pc' = [i \in Files |-> IF i \in all_files' THEN "start" ELSE "none"]
    /\ status' = [i \in Files |->
                    IF i \in all_files' THEN "Discovered" ELSE "None"]
    /\ mainpc' = "gather"
    /\ UNCHANGED <<auxvars, reply1, replaceExisting, max_concurrent, semaphore, fs, token_sum,
                   held, tokens, reason, kind1, cost1, kind2, cost2, calls1,
                   calls2, renames>>

\* lines 191-196 and the exits of the `async with` blocks: task j leaves
\* get_title_and_author with result r, releases what it holds, renames
Complete(j, r, why, ioerror) ==
    LET rn == rename_file(fs, Path(j), r.name, ioerror)
    IN  /\ semaphore' = Release(semaphore, held[j])
        /\ held' = [held EXCEPT ![j] = 0]
        /\ IF r.raised
           THEN /\ pc' = [pc EXCEPT ![j] = "raised"]
                /\ status' = [status EXCEPT ![j] = "Raised"]
                /\ reason' = [reason EXCEPT ![j] = why]
                /\ UNCHANGED <<fs, renames, tokens>>
           ELSE /\ pc' = [pc EXCEPT ![j] = "done"]
                /\ tokens' = [tokens EXCEPT ![j] = r.tokens]
                /\ IF Truthy(r.name)
                   THEN /\ fs' = rn.fs
                        /\ status' = [status EXCEPT ![j] =
                                        IF rn.ok THEN "Renamed" ELSE "Failed"]
                        /\ reason' = [reason EXCEPT ![j] =
                                        IF rn.ok THEN "renamed"
                                        ELSE "rename error"]
                        /\ renames' = IF rn.ok
                                      THEN [renames EXCEPT ![rn.moved] = @ + 1]
                                      ELSE renames
                   ELSE /\ status' = [status EXCEPT ![j] = "Failed"]
                        /\ reason' = [reason EXCEPT ![j] = why]
                        /\ UNCHANGED <<fs, renames>>

\* lines 176-189 and 160-162: the task runs up to its first suspension
ProcessFile(j) ==
    /\ mainpc = "gather"
    /\ pc[j] = "start"
    /\ \E text \in TextSamples :
         IF ~IsSupported(j) \/ Strip(text) = <<>>
         THEN /\ pc' = [pc EXCEPT ![j] = "done"]
              /\ status' = [status EXCEPT ![j] =
                              IF IsSupported(j) THEN "Skipped" ELSE "Ignored"]
              /\ reason' = [reason EXCEPT ![j] =
                              IF IsSupported(j) THEN "no extractable text"
                              ELSE "unsupported extension"]
              /\ tokens' = [tokens EXCEPT ![j] = 0]
              /\ UNCHANGED <<semaphore, held, calls1>>
         ELSE /\ status' = [status EXCEPT ![j] = "Extracted"]
              /\ IF CanAcquire(semaphore)
                 THEN /\ semaphore' = semaphore - 1
                      /\ held' = [held EXCEPT ![j] = @ + 1]
                      /\ calls1' = [calls1 EXCEPT ![j] = @ + 1]
                      /\ pc' = [pc EXCEPT ![j] = "call1"]
                 ELSE /\ pc' = [pc EXCEPT ![j] = "gate1"]
                      /\ UNCHANGED <<semaphore, held, calls1>>
              /\ UNCHANGED <<reason, tokens>>
    /\ UNCHANGED <<auxvars, reply1, replaceExisting, max_concurrent, fs, all_files, mainpc,
                   token_sum, kind1, cost1, kind2, cost2, calls2, renames>>

\* line 160: a task suspended in `async with semaphore` gets a permit and
\* issues the primary call (line 162)
Acquire1(j) ==
    /\ mainpc = "gather"
    /\ pc[j] = "gate1"
    /\ CanAcquire(semaphore)
    /\ semaphore' = semaphore - 1
    /\ held' = [held EXCEPT ![j] = @ + 1]
    /\ calls1' = [calls1 EXCEPT ![j] = @ + 1]
    /\ pc' = [pc EXCEPT ![j] = "call1"]
    /\ UNCHANGED <<auxvars, reply1, replaceExisting, max_concurrent, fs, all_files, mainpc,
                   token_sum, tokens, status, reason, kind1, cost1, kind2,
                   cost2, calls2, renames>>

\* lines 162-172: the primary call returns or raises
PrimaryReturn(j) ==
    /\ mainpc = "gather"
    /\ pc[j] = "call1"
    /\ \E out \in Outcomes, ioerror \in BOOLEAN :
         /\ kind1' = [kind1 EXCEPT ![j] =
                        IF out.kind = "error" THEN "error"
                        ELSE IF IsSentinel(out) THEN "more" ELSE "reply"]
         /\ cost1' = [cost1 EXCEPT ![j] = out.cost]
         /\ reply1' = [reply1 EXCEPT ![j] = Strip(out.content)]
         /\ IF IsSentinel(out)
            THEN \* line 168, then line 139 inside phase2_fallback
                 /\ tokens' = [tokens EXCEPT ![j] = out.cost]
                 /\ IF CanAcquire(semaphore)
                    THEN /\ semaphore' = semaphore - 1
                         /\ held' = [held EXCEPT ![j] = @ + 1]
                         /\ calls2' = [calls2 EXCEPT ![j] = @ + 1]
                         /\ pc' = [pc EXCEPT ![j] = "call2"]
                    ELSE /\ pc' = [pc EXCEPT ![j] = "gate2"]
                         /\ UNCHANGED <<semaphore, held, calls2>>
                 /\ UNCHANGED <<fs, status, reason, renames>>
            ELSE /\ Complete(j, get_title_and_author_except(phase1_reply(out)),
                             IF out.kind = "error" THEN "primary call error"
                             ELSE "invalid format", ioerror)
                 /\ UNCHANGED calls2
    /\ UNCHANGED <<auxvars, replaceExisting, max_concurrent, all_files, mainpc,
                   token_sum, kind2, cost2, calls1>>

\* line 139: a task suspended in phase2_fallback's `async with semaphore`
\* gets a permit and issues the fallback call (line 140)
Acquire2(j) ==
    /\ mainpc = "gather"
    /\ pc[j] = "gate2"
    /\ CanAcquire(semaphore)
    /\ semaphore' = semaphore - 1
    /\ held' = [held EXCEPT ![j] = @ + 1]
    /\ calls2' = [calls2 EXCEPT ![j] = @ + 1]
    /\ pc' = [pc EXCEPT ![j] = "call2"]
    /\ UNCHANGED <<auxvars, reply1, replaceExisting, max_concurrent, fs, all_files, mainpc,
                   token_sum, tokens, status, reason, kind1, cost1, kind2,
                   cost2, calls1, renames>>

\* lines 140-144, then 170-172 and 191-196: the fallback call returns or
\* raises
FallbackReturn(j) ==
    /\ mainpc = "gather"
    /\ pc[j] = "call2"
    /\ \E out \in Outcomes, ioerror \in BOOLEAN :
         /\ kind2' = [kind2 EXCEPT ![j] = out.kind]
         /\ cost2' = [cost2 EXCEPT ![j] = out.cost]
         /\ Complete(j, get_title_and_author_except(phase2_fallback(out)),
                     IF out.kind = "error" THEN "fallback call error"
                     ELSE "invalid format", ioerror)
    /\ UNCHANGED <<auxvars, reply1, replaceExisting, max_concurrent, all_files, mainpc,
                   token_sum, kind1, cost1, calls1, calls2>>

\* only one of the results counted
SumOver_one(f, S) == IF S = {} THEN 0 ELSE f[CHOOSE i \in S : TRUE]

RECURSIVE SumOver(_, _)
SumOver(f, S) ==
    IF S = {} THEN 0
    ELSE LET i == CHOOSE i \in S : TRUE IN f[i] + SumOver(f, S \ {i})

\* lines 208-209: gather returns when every task has returned, or raises the
\* first exception a task raised
Gather ==
    /\ mainpc = "gather"
    /\ \/ \A j \in all_files : pc[j] = "done"
       \/ \E j \in all_files : pc[j] = "raised"
    /\ IF \E j \in all_files : pc[j] = "raised"
       THEN /\ mainpc' = "aborted"
            /\ UNCHANGED token_sum
       ELSE /\ mainpc' = "reported"
            /\ token_sum' = SumOver(tokens, all_files)
    /\ UNCHANGED <<auxvars, reply1, replaceExisting, max_concurrent, semaphore, fs, all_files,
                   pc, held, tokens, status, reason, kind1, cost1, kind2,
                   cost2, calls1, calls2, renames>>

Next ==
    \/ Discover
    \/ \E j \in Files : ProcessFile(j)
    \/ \E j \in Files : Acquire1(j)
    \/ \E j \in Files : PrimaryReturn(j)
    \/ \E j \in Files : Acquire2(j)
    \/ \E j \in Files : FallbackReturn(j)
    \/ Gather

Spec == Init /\ [][Next]_vars

\* The event loop runs every task that can run, and every issued call
\* returns or times out (httpx timeout, line 206).
FairSpec == Spec /\ WF_vars(Next)

\* ------------------------------------------------- the sanitizer by itself
SanAlphabet == {"a", "-", " ", "\t", "?"}

ShortStrings == UNION {[1..n -> SanAlphabet] : n \in 0..MaxLen}

Fill(c, n) == [k \in 1..n |-> c]

\* a short head followed by a long run of one character, with total lengths
\* on both sides of MAX_NAME_LEN
LongStrings ==
    {head \o Fill(c, n) :
        head \in UNION {[1..k -> SanAlphabet] : k \in 0..2},
        c \in {"a", " ", "?"},
        n \in (MAX_NAME_LEN - 3)..(MAX_NAME_LEN + 1)}

\* the batch is not running
BatchOff ==
    /\ max_concurrent = 1
    /\ semaphore = 1
    /\ fs = <<>>
    /\ all_files = {}
    /\ mainpc = "off"
    /\ token_sum = 0
    /\ pc = [i \in Files |-> "none"]
    /\ held = [i \in Files |-> 0]
    /\ tokens = [i \in Files |-> 0]
    /\ status = [i \in Files |-> "None"]
    /\ reason = [i \in Files |-> "none"]
    /\ kind1 = [i \in Files |-> "none"]
    /\ cost1 = [i \in Files |-> 0]
    /\ kind2 = [i \in Files |-> "none"]
    /\ cost2 = [i \in Files |-> 0]
    /\ calls1 = [i \in Files |-> 0]
    /\ calls2 = [i \in Files |-> 0]
    /\ renames = [i \in Files |-> 0]
    /\ reply1 = [i \in Files |-> <<>>]

batchvars == <<replaceExisting, max_concurrent, semaphore, fs, all_files,
               mainpc, token_sum, pc, held, tokens, status, reason, kind1,
               cost1, kind2, cost2, calls1, calls2, renames, reply1>>

SanInit ==
    /\ BatchOff
    /\ DwIdle
    /\ replaceExisting = FALSE
    /\ san_pc = "input"
    /\ san_in \in ShortStrings \cup LongStrings
    /\ san_out = <<>>

\* lines 62-73: one call of sanitize_filename
Sanitize ==
    /\ san_pc = "input"
    /\ san_out' = sanitize_filename(san_in)
    /\ san_pc' = "done"
    /\ UNCHANGED <<san_in, batchvars, dwvars>>

SanNext == Sanitize

SanSpec == SanInit /\ [][SanNext]_vars

\* -------------------------------------------- the randomizing script
ALLOWED_EXTENSIONS ==
    { <<".", "p", "d", "f">>, <<".", "a", "z", "w", "3">>,
      <<".", "m", "o", "b", "i">>, <<".", "e", "p", "u", "b">> }

Digits == <<"0", "1", "2", "3", "4", "5", "6", "7", "8", "9">>

\* f"{n}": the decimal digits of n
RECURSIVE Str(_)
Str(n) ==
    IF n < 10 THEN <<Digits[n + 1]>>
    ELSE Append(Str(n \div 10), Digits[(n % 10) + 1])

\* the values random.randint can return, cut down to the first DwFiles + 1
Draws == {n \in RAND_MIN..(RAND_MIN + DwFiles) : n <= RAND_MAX}

\* the entries a directory can hold before the run, numbered: entry k starts
\* at DwPath(k).  The stems are the names the script can draw and one it
\* cannot, each with an allowed and with another extension.
DwEntries == 1..(2 * (DwFiles + 2))

DwStem(m) == IF m <= DwFiles + 1 THEN Str(RAND_MIN + m - 1) ELSE <<"b">>

DwPath(k) ==
    <<DwStem((k + 1) \div 2),
      IF k % 2 = 1 THEN <<".", "p", "d", "f">> ELSE <<".", "t", "x", "t">> >>

DwPaths == {DwPath(k) : k \in DwEntries}

DwInit ==
    /\ BatchOff
    /\ SanIdle
    /\ replaceExisting \in BOOLEAN
    /\ dw_pc = "list"
    /\ dw_init \in {S \in SUBSET DwEntries : S # {} /\ Cardinality(S) <= DwFiles}
    /\ dw_fs = [p \in {DwPath(k) : k \in dw_init} |->
                   CHOOSE k \in dw_init : DwPath(k) = p]
    /\ dw_todo = {}
    /\ used_names = {}
    /\ dw_renames = [k \in dw_init |-> 0]
    /\ dw_clash = FALSE

\* line 24: PDF_DIR.iterdir() reads the directory
DwList ==
    /\ dw_pc = "list"
    /\ dw_todo' = DOMAIN dw_fs
    /\ dw_pc' = "loop"
    /\ UNCHANGED <<dw_init, dw_fs, used_names, dw_renames, dw_clash,
                   batchvars, sanvars>>

\* lines 14-18: a drawn name that is not in existing_names
generate_random_name(existing_names) ==
    {Str(n) : n \in Draws} \ existing_names

\* line 25
DwEligible(file) ==
    file \in DOMAIN dw_fs /\ Lower(file[2]) \in ALLOWED_EXTENSIONS

\* lines 24-30: one round of the loop
DwRound(file) ==
    /\ dw_pc = "loop"
    /\ file \in dw_todo
    /\ dw_todo' = dw_todo \ {file}
    /\ IF DwEligible(file)
       THEN \E new_name \in generate_random_name(used_names) :
              LET rn == rename_file(dw_fs, file, new_name, FALSE)
                  new_file_path == <<new_name, file[2]>>
              IN  /\ dw_clash' = \/ dw_clash
                                 \/ /\ new_file_path \in DOMAIN dw_fs
                                    /\ new_file_path # file
                  /\ dw_fs' = rn.fs
                  /\ IF rn.ok
                     THEN /\ used_names' = used_names \cup {new_name}
                          /\ dw_renames' =
                                [dw_renames EXCEPT ![rn.moved] = @ + 1]
                          /\ dw_pc' = dw_pc
                     ELSE \* line 28 raises, nothing catches it
                          /\ dw_pc' = "crashed"
                          /\ UNCHANGED <<used_names, dw_renames>>
       ELSE UNCHANGED <<dw_pc, dw_fs, used_names, dw_renames, dw_clash>>
    /\ UNCHANGED <<dw_init, batchvars, sanvars>>

\* the loop has gone through the listing
DwEnd ==
    /\ dw_pc = "loop"
    /\ dw_todo = {}
    /\ dw_pc' = "done"
    /\ UNCHANGED <<dw_init, dw_fs, dw_todo, used_names, dw_renames,
                   dw_clash, batchvars, sanvars>>

DwNext ==
    \/ DwList
    \/ \E file \in DwPaths : DwRound(file)
    \/ DwEnd

DwSpec == DwInit /\ [][DwNext]_vars

\* ------------------------------------------------------------ observations
Unfinished == {j \in all_files : pc[j] \notin {"done", "raised"}}

\* calls issued and not yet returned or errored
InFlight == {j \in all_files : pc[j] \in {"call1", "call2"}}

AtGate == {j \in all_files : pc[j] \in {"gate1", "gate2"}}

\* ================================================================= claims

\* C1: runBatch terminates for every gate size: no reachable state has
\* unfinished jobs that are all waiting on the admission gate while the gate
\* has no permit left to give, so every job reaches a terminal state and the
\* statistics are reported.
C1_NoJobsAllStuckAtGate ==
    ~ ( /\ mainpc = "gather"
        /\ Unfinished # {}
        /\ Unfinished \subseteq AtGate
        /\ ~CanAcquire(semaphore) )

\* C2: the number of completion calls (primary and fallback together, over
\* all jobs) issued and not yet returned is at most MAX_CONCURRENT.
C2_InFlightAtMostN == Cardinality(InFlight) <= max_concurrent

\* the gate is full and holds a task back
C2_Witness ==
    /\ Cardinality(InFlight) = max_concurrent
    /\ \E j \in all_files : pc[j] = "gate1"
    /\ \E j \in all_files : calls1[j] = 1

\* C3: a job whose primary call returned the sentinel and whose fallback call
\* returned a reply ends with tokenCost = primary cost + fallback cost,
\* whether or not the sanitizer accepts the fallback reply.
C3_TokenCostSumsBothCalls ==
    \A j \in Files :
        (pc[j] = "done" /\ kind1[j] = "more" /\ kind2[j] = "reply")
            => tokens[j] = cost1[j] + cost2[j]

\* C4: a call error in either phase makes the job Failed and adds nothing to
\* its tokenCost: 0 after a primary-call error, the primary call's cost after
\* a fallback-call error; a job's tokenCost never decreases.
C4_CallErrorKeepsAccumulatedCost ==
    /\ [](\A j \in Files :
            pc[j] = "done" =>
              /\ kind1[j] = "error" => (status[j] = "Failed" /\ tokens[j] = 0)
              /\ kind2[j] = "error" =>
                    (status[j] = "Failed" /\ tokens[j] = cost1[j]))
    /\ [][\A j \in Files : tokens'[j] >= tokens[j]]_vars

\* C5: a rename never overwrites an existing destination: every file that
\* was in the directory is still in it, so the number of files is the same
\* after any batch as before it.
C5_RenameNeverOverwrites ==
    /\ Cardinality(DOMAIN fs) = NumFiles
    /\ \A i \in Files : \E p \in DOMAIN fs : fs[p] = i

\* C6: for every job whose primary reply is the sentinel exactly one fallback
\* call is issued: it is eventually issued, and never a second time.
C6_ExactlyOneFallback ==
    \A j \in Files :
        /\ (kind1[j] = "more") ~> (calls2[j] = 1)
        /\ [](calls2[j] <= 1)

\* C7: the gate is acquired before each call and released right after it
\* returns: a job holds a slot only while one of its calls is outstanding,
\* the primary call's slot is released before the fallback call is admitted,
\* and no job holds more than one slot.
C7_OneSlotOnlyDuringACall ==
    \A j \in Files :
        /\ held[j] <= 1
        /\ held[j] = 1 <=> pc[j] \in {"call1", "call2"}

\* C8: every error local to one job becomes a terminal status of that job
\* and never leaves its task: gather never receives an exception, and the
\* step in which a job fails or is skipped changes neither another job's
\* status, tokenCost or position nor any file.
C8_FailureStep ==
    \A j \in Files :
        (status[j] \notin {"Failed", "Skipped"}
            /\ status'[j] \in {"Failed", "Skipped"})
        => /\ fs' = fs
           /\ pc'[j] = "done"
           /\ \A k \in Files \ {j} :
                /\ pc'[k] = pc[k]
                /\ status'[k] = status[k]
                /\ tokens'[k] = tokens[k]
                /\ held'[k] = held[k]

C9_SkippedJobIsUntouched ==
    \A j \in Files :
        status[j] = "Skipped" =>
            /\ calls1[j] = 0 /\ calls2[j] = 0
            /\ kind1[j] = "none" /\ held[j] = 0
            /\ tokens[j] = 0
            /\ Path(j) \in DOMAIN fs /\ fs[Path(j)] = j

\* C10: a job that does not end with a rename performs no filesystem
\* operation: when the batch ends its file is still at its original path
\* with its original name.
C10_UnrenamedFileStaysPut ==
    mainpc = "reported" =>
        \A j \in all_files :
            status[j] # "Renamed" =>
                Path(j) \in DOMAIN fs /\ fs[Path(j)] = j


\* number of non-empty segments of name.split("-")
NonEmptySegments(s) ==
    Cardinality({i \in DOMAIN Split(s, "-") : Split(s, "-")[i] # <<>>})

\* C11: sanitize_filename rejects every input whose cleaned form, split on
\* "-", yields fewer than two non-empty segments.
C11_RejectsFewerThanTwoSegments ==
    (san_pc = "done" /\ NonEmptySegments(Cleaned(san_in)) < 2)
        => san_out = None


\* C12 as stated: every input that contains no "-", or whose length exceeds
\* 150 characters, is rejected.
C12_RejectsNoDashOrLongInput ==
    (san_pc = "done"
        /\ (~Contains(san_in, "-") \/ Len(san_in) > MAX_NAME_LEN))
        => san_out = None

\* C12 (amended): every input that contains no "-", or whose cleaned form
\* (illegal characters removed, whitespace collapsed, ends trimmed) is
\* longer than 150 characters, is rejected.
C12_RejectsNoDashOrLongCleaned ==
    (san_pc = "done"
        /\ (~Contains(san_in, "-") \/ Len(Cleaned(san_in)) > MAX_NAME_LEN))
        => san_out = None

\* an input with a separator was rejected for its length alone
C12_Witness ==
    /\ san_pc = "done"
    /\ Contains(san_in, "-")
    /\ Len(Cleaned(san_in)) = MAX_NAME_LEN + 1
    /\ san_out = None

\* C13: an accepted name contains none of < > : " / \ | ? *, no whitespace
\* other than single spaces, no leading or trailing whitespace, contains
\* "-" and has at most 150 characters.
C13_AcceptedNameIsClean ==
    (san_pc = "done" /\ san_out # None) =>
        /\ \A i \in DOMAIN san_out : san_out[i] \notin Illegal
        /\ \A i \in DOMAIN san_out :
              san_out[i] \in Whitespace =>
                  /\ san_out[i] = " "
                  /\ i > 1 /\ i < Len(san_out)
                  /\ san_out[i + 1] \notin Whitespace
        /\ \E i \in DOMAIN san_out : san_out[i] = "-"
        /\ Len(san_out) <= MAX_NAME_LEN

\* an input with a run of whitespace inside it was accepted, the run
\* collapsed to one space
C13_Witness ==
    /\ san_pc = "done"
    /\ san_out # None
    /\ \E i \in DOMAIN san_in :
          i < Len(san_in) /\ san_in[i] = "\t" /\ san_in[i + 1] = " "
    /\ \E i \in DOMAIN san_out : san_out[i] = " "


\* the reply is the word MORE in any mix of cases
C14_SaysMore(reply) ==
    /\ Len(reply) = Len(SENTINEL)
    /\ \A k \in DOMAIN reply :
          reply[k] \in {SENTINEL[k], LowerChar(SENTINEL[k])}

\* C14: the fallback phase is entered only when the primary call returned
\* the sentinel: a job whose primary call returned another reply or raised
\* makes exactly one call, the primary call is never retried, and no job
\* issues more than one primary and one fallback call.
C14_FallbackOnlyAfterSentinel ==
    \A j \in Files :
        /\ calls1[j] <= 1
        /\ calls2[j] <= 1
        /\ (calls2[j] > 0 \/ pc[j] \in {"gate2", "call2"})
              => (kind1[j] # "error" /\ C14_SaysMore(reply1[j]))
        /\ (kind1[j] # "none"
                /\ (kind1[j] = "error" \/ ~C14_SaysMore(reply1[j])))
              => (pc[j] = "done" /\ calls1[j] = 1 /\ calls2[j] = 0)

\* one job ended after a single call, another after a primary and a
\* fallback call
C14_Witness ==
    \E j, k \in all_files :
        /\ pc[j] = "done" /\ kind1[j] = "reply" /\ calls2[j] = 0
        /\ pc[k] = "done" /\ calls1[k] = 1 /\ calls2[k] = 1


\* C15: a file is renamed at most once per run: no file, identified by its
\* content, is the source of more than one successful rename, also when one
\* job's destination is the original path of another discovered job.
C15_RenamedAtMostOnce == \A i \in Files : renames[i] <= 1


\* the token costs of the discovered jobs among entries 1..n, added up
RECURSIVE C16_CostUpTo(_)
C16_CostUpTo(n) ==
    IF n = 0 THEN 0
    ELSE (IF n \in all_files THEN tokens[n] ELSE 0) + C16_CostUpTo(n - 1)

\* C16: when the batch completes, renamedCount <= discoveredCount and the
\* reported total equals the sum of the discovered jobs' final tokenCost,
\* whatever the order of completion; the total is written in one step after
\* the jobs have finished and at no other time.
C16_TotalIsSumOfJobCosts ==
    /\ [](mainpc = "reported" =>
            /\ Cardinality({j \in all_files : status[j] = "Renamed"})
                  <= Cardinality(all_files)
            /\ \A j \in all_files : pc[j] = "done"
            /\ token_sum = C16_CostUpTo(NumFiles))
    /\ [][token_sum' # token_sum =>
            (mainpc = "gather" /\ mainpc' = "reported"
               /\ \A j \in all_files : pc[j] = "done")]_vars

\* the batch reported a total to which two jobs contributed
C16_Witness ==
    /\ mainpc = "reported"
    /\ \E j, k \in all_files : j # k /\ tokens[j] > 0 /\ tokens[k] > 0
    /\ token_sum >= 2


\* the suffix of entry i is a supported one in some mix of cases
C17_Eligible(i) ==
    \E t \in SupportedSuffixes :
        /\ Len(Suffix(i)) = Len(t)
        /\ \A k \in DOMAIN t : Suffix(i)[k] \in {t[k], UpperChar(t[k])}

\* C17: exactly the entries whose extension is, case-insensitively, one of
\* .pdf .epub .mobi .azw3 become jobs; any other entry is never extracted,
\* never causes a call, is never renamed and is not counted among the files
\* processed.
C17_OnlySupportedEntriesAreJobs ==
    /\ mainpc = "list" => all_files = {}
    /\ mainpc # "list" => \A i \in Files : i \in all_files <=> C17_Eligible(i)
    /\ \A i \in Files :
          ~C17_Eligible(i) =>
              /\ pc[i] = "none" /\ status[i] = "None"
              /\ calls1[i] = 0 /\ calls2[i] = 0 /\ tokens[i] = 0
              /\ renames[i] = 0
              /\ Path(i) \in DOMAIN fs /\ fs[Path(i)] = i

\* the batch reported with an entry left aside and an entry with an
\* upper-case extension renamed
C17_Witness ==
    /\ mainpc = "reported"
    /\ \E i \in Files : ~C17_Eligible(i)
    /\ \E j \in all_files :
          Suffix(j) # Lower(Suffix(j)) /\ status[j] = "Renamed"


\* permits held by the tasks of entries 1..n
RECURSIVE C18_HeldUpTo(_)
C18_HeldUpTo(n) == IF n = 0 THEN 0 ELSE held[n] + C18_HeldUpTo(n - 1)

\* C18: gate permits are conserved: free permits plus permits held by jobs
\* equal N in every state, a job that has left the gated region (by a
\* reply, after an escalation, or by an exception) holds none, and once
\* every job is terminal all N permits are free.
C18_PermitsConserved ==
    /\ semaphore + C18_HeldUpTo(NumFiles) = max_concurrent
    /\ semaphore >= 0
    /\ \A j \in Files : pc[j] \notin {"call1", "gate2", "call2"} => held[j] = 0
    /\ (mainpc # "list" /\ \A j \in all_files : pc[j] \in {"done", "raised"})
          => semaphore = max_concurrent

\* every job is terminal, one left the gated region by an exception in its
\* fallback call and one by a reply
C18_Witness ==
    /\ mainpc = "reported"
    /\ semaphore = max_concurrent
    /\ \E j, k \in all_files :
          /\ reason[j] = "fallback call error"
          /\ kind1[k] = "reply"


\* C19: in the randomizing script no rename overwrites a file: no rename
\* runs while its destination exists, so the number of files is preserved,
\* every file is still there, and each eligible file is renamed exactly
\* once.
C19_RandomizerNeverOverwrites ==
    /\ ~dw_clash
    /\ dw_pc # "crashed"
    /\ Cardinality(DOMAIN dw_fs) = Cardinality(dw_init)
    /\ \A k \in dw_init : \E p \in DOMAIN dw_fs : dw_fs[p] = k
    /\ dw_pc = "done" =>
          \A k \in dw_init :
              dw_renames[k] =
                  IF Lower(DwPath(k)[2]) \in ALLOWED_EXTENSIONS THEN 1 ELSE 0

====
